---- MODULE Spec2Model ----
(***************************************************************************)
(* Model of the Recon Agent request pipeline: the /recon_agent endpoint    *)
(* (src/main.py) and the four plugins it sequences (query, database,       *)
(* storage, response).  One request is followed from its arrival to its    *)
(* response.  The language model, the database and the object store are    *)
(* external: their answers are nondeterministic choices from small sets.   *)
(* Texts are TLA+ strings; Python's None is the value PyNone.              *)
(***************************************************************************)
EXTENDS Integers, Sequences, FiniteSets, TLC

VARIABLES
    pc,               \* position of the request in recon_agent_endpoint
    user_input,       \* req_data.get("chat_input")
    chat_history,     \* req_data.get("chat_history", [])
    user_name,        \* req_data.get("user_name", "")
    db,               \* the database as the gateway will find it
    storage,          \* the file system / object store as the writer will find it
    is_relevant,      \* main.py:91
    general_response, \* main.py:92
    classifier_reply, \* what the classifier's model call brought back
    is_list_request,  \* main.py:93
    sql_query,        \* variables["sql_query"]
    list_data,        \* main.py:104, the parsed reply of process_list_query
    query_result,     \* variables["query_result"]
    csv_url,          \* main.py:131/138
    response,         \* what the endpoint returns or raises
    calls,            \* plugin functions and external services invoked, in order
    db_log,           \* statements sent to cursor.execute, in order
    local_files,      \* paths existing under /tmp
    blobs,            \* the container: blob name -> uploaded content
    failed,           \* components whose external call failed in this request
    db_connections,   \* connections opened by execute_query and not closed
    exports,          \* Export Writer invocations followed on their own
    clock,            \* index into Timestamps of the current second
    answer_prompt     \* what format_response sent to the model, if it called it

vars == <<list_data, pc, user_input, chat_history, user_name, db, storage, is_relevant,
          classifier_reply, general_response, is_list_request, sql_query, query_result, csv_url,
          response, calls, db_log, local_files, blobs, failed, db_connections,
          exports, clock, answer_prompt>>

(***************************************************************************)
(* Python values and text operations.                                      *)
(***************************************************************************)

\* Python's None: a value different from every text of the program.
PyNone == "<<None>>"

\* bool(v) for a text-or-None value: None and "" are falsy.
Truthy(v) == v # PyNone /\ v # ""

\* Python's `a or b` on text-or-None values.
PyOr(a, b) == IF Truthy(a) THEN a ELSE b

\* dict.get(k, default)
Get(d, k, default) == IF k \in DOMAIN d THEN d[k] ELSE default

\* `t in s` for texts: t occurs in s as a contiguous substring.
Contains(s, t) ==
    \E i \in 1..(Len(s) - Len(t) + 1) : SubSeq(s, i, i + Len(t) - 1) = t

\* True when t occurs in s at position i.
OccursAt(s, t, i) == i + Len(t) - 1 <= Len(s) /\ SubSeq(s, i, i + Len(t) - 1) = t

\* str.replace(old, new) for a non-empty old: leftmost, non-overlapping.
\* from[i] is the replaced text of s from position i on: the text up to the
\* next occurrence of old at or after i, then new, then the rest after that
\* occurrence. The text is bound once, so that a nested call is evaluated once.
Replace(s, old, new) ==
    CHOOSE r \in { LET from[i \in 1..(Len(v) + 1)] ==
                         LET found == { m \in i..Len(v) : OccursAt(v, old, m) }
                         IN  IF found = {} THEN SubSeq(v, i, Len(v))
                             ELSE LET m == CHOOSE n \in found : \A o \in found : n <= o
                                  IN  SubSeq(v, i, m - 1) \o new \o from[m + Len(old)]
                   IN  from[1] : v \in {s} } : TRUE

\* The characters str.isspace() holds for and a string of this module can
\* hold: horizontal tab, line feed, vertical tab, form feed, carriage
\* return, the separators U+001C..U+001F, the blank, next line (U+0085),
\* the no-break space (U+00A0) and the ogham space mark (U+1680), each
\* written as the character itself.  The other characters str.isspace()
\* holds for (U+2000..U+200A, U+2028, U+2029, U+202F, U+205F, U+3000)
\* cannot be written in a string here, so no text of this module holds one.
Whitespace ==
    { "\t", "\n", "", "\f", "\r", "", "", "", "", " ",
      "", " ", " " }

\* Positions of s that hold a character other than whitespace.
Inked(s) == { i \in 1..Len(s) : SubSeq(s, i, i) \notin Whitespace }

\* str.lstrip()
LStrip(s) ==
    CHOOSE r \in { IF Inked(v) = {} THEN ""
                   ELSE SubSeq(v, CHOOSE i \in Inked(v) : \A k \in Inked(v) : i <= k, Len(v))
                   : v \in {s} } : TRUE

\* str.rstrip()
RStrip(s) ==
    CHOOSE r \in { IF Inked(v) = {} THEN ""
                   ELSE SubSeq(v, 1, CHOOSE i \in Inked(v) : \A k \in Inked(v) : k <= i)
                   : v \in {s} } : TRUE

\* str.strip()
Strip(s) == RStrip(LStrip(s))

UpperAlpha == "ABCDEFGHIJKLMNOPQRSTUVWXYZ"
LowerAlpha == "abcdefghijklmnopqrstuvwxyz"

LowerChar(c) ==
    IF \E i \in 1..Len(UpperAlpha) : SubSeq(UpperAlpha, i, i) = c
    THEN LET i == CHOOSE j \in 1..Len(UpperAlpha) : SubSeq(UpperAlpha, j, j) = c
         IN  SubSeq(LowerAlpha, i, i)
    ELSE c

\* str.lower() on ASCII text; span[<<i, j>>] is the lowered text of positions
\* i..j, built from its two halves.
Lower(s) ==
    CHOOSE r \in { LET span[p \in (1..(Len(v) + 1)) \X (0..Len(v))] ==
                         IF p[1] > p[2] THEN ""
                         ELSE IF p[1] = p[2] THEN LowerChar(SubSeq(v, p[1], p[1]))
                         ELSE LET mid == (p[1] + p[2]) \div 2
                              IN  span[<<p[1], mid>>] \o span[<<mid + 1, p[2]>>]
                   IN  span[<<1, Len(v)>>] : v \in {s} } : TRUE


\* The backtick character (U+0060) cannot be written inside a TLA+ string;
\* it is written as "~" in every text of this module.
Backtick == "~"
Fence == Backtick \o Backtick \o Backtick

(***************************************************************************)
(* Inputs: the request body, and the external world the request meets.     *)
(***************************************************************************)

\* chat_input values of the request body; PyNone is a body without the key.
Questions ==
    { PyNone, "",
      "hello",
      "List refused in April",
      "how many matched yesterday",
      "fees by specialist",
      "EXPORT the totals",
      "total per store" }

\* chat_history values: ordered {question, answer} entries, oldest first.
Histories ==
    { <<>>,
      << [question |-> "refused in April", answer |-> "12 refused"],
         [question |-> "and in May?", answer |-> " "] >>,
      << [question |-> "refused in April", answer |-> "12 refused"],
         [question |-> "and in May?", answer |-> PyNone] >> }

UserNames == {"", "Ana"}

Body(q, h, n) == [chat_input |-> q, chat_history |-> h, user_name |-> n]

\* The request bodies followed: every question alone and anonymous, a
\* greeting with every history and name, a data question after a history.
Requests ==
    { Body(q, <<>>, "") : q \in Questions }
    \cup { Body("hello", h, n) : h \in Histories, n \in UserNames }
    \cup { Body("total per store", h, "Ana") : h \in Histories \ {<<>>} }

\* The database as execute_query finds it: unreachable, rejecting the
\* statement, or answering with column names and nrows rows.
AdyenColumns == <<"PSPREFERENCE", "PAYMENTAMOUNT">>
JoinColumns == <<"PSPREFERENCE", "PSPREFERENCE", "CAPTUREDAMOUNT">>
KeyColumn == <<"PSPREFERENCE">>

MixedColumns == <<"PSPREFERENCE", "TAGS", "PHASE">>

\* A table whose column at position j holds values of the Python type
\* column_types[j].
TypedTable(column_names, column_types, nrows) ==
    [mode |-> "ok", error |-> "", column_names |-> column_names,
     column_types |-> column_types, nrows |-> nrows]

\* A table of integers.
Table(column_names, nrows) ==
    TypedTable(column_names, [j \in 1..Len(column_names) |-> "int"], nrows)

FailingDatabases ==
    { [mode |-> "connect_error", error |-> "Adaptive Server connection failed",
       column_names |-> <<>>, nrows |-> 0],
      [mode |-> "execute_error", error |-> "",
       column_names |-> <<>>, nrows |-> 0],
      [mode |-> "cursor_error", error |-> "Not connected to any MS SQL server",
       column_names |-> <<>>, nrows |-> 0],
      [mode |-> "description_error", error |-> "'NoneType' object is not iterable",
       column_names |-> <<>>, nrows |-> 0],
      [mode |-> "fetch_error", error |-> "Statement not executed or executed statement has no resultset",
       column_names |-> AdyenColumns, nrows |-> 0] }

SmallDatabases ==
    { Table(AdyenColumns, 0), Table(AdyenColumns, 5), Table(AdyenColumns, 20),
      Table(AdyenColumns, 21), Table(JoinColumns, 2),
      TypedTable(MixedColumns, <<"int", "set", "complex">>, 2) }

\* Results at the too-large limit of response_plugin.py:89 and one above it.
LargeDatabases == { Table(KeyColumn, 10000), Table(KeyColumn, 10001) }

Databases == FailingDatabases \cup SmallDatabases \cup LargeDatabases

\* The file system and object store as generate_csv finds them.
StorageModes ==
    {"ok", "open_error", "write_error", "no_config", "upload_error", "remove_error"}

\* The worlds a request is followed in: every small or failing database
\* with a working store, one small database with every storage behaviour,
\* the large ones with a working and a failing upload.
SmallWorlds ==
    ((FailingDatabases \cup SmallDatabases) \X {"ok"})
    \cup ({Table(AdyenColumns, 21)} \X StorageModes)

LargeWorlds == LargeDatabases \X {"ok", "upload_error"}

\* Request and world together; the large results are followed for one
\* question with an export keyword and one without.
Scenarios ==
    (Requests \X SmallWorlds)
    \cup ({ Body(q, <<>>, "") : q \in {"how many matched yesterday", "EXPORT the totals"} }
          \X LargeWorlds)

\* Values of datetime.now().strftime("%Y%m%d_%H%M%S"), in time order.
Timestamps == <<"20250101_120000", "20250101_120001">>

\* BLOB_STORAGE_ACCOUNT_url and BLOB_STORAGE_CONTAINER_NAME of the environment.
AccountUrl == "https://acct.blob.core.windows.net"
ContainerName == "exports"

\* Value of a variable the handler has not assigned yet.
NoResult == [unset |-> TRUE]
NoPrompt == [unset |-> TRUE]
NoListData == [unset |-> TRUE]
NoResponse == [status |-> 0, chat_output |-> "", csv_url |-> PyNone, detail |-> ""]

Init ==
    /\ pc = "received"
    /\ \E scenario \in Scenarios :
         LET req_data == scenario[1]
             world == scenario[2]
         IN  /\ user_input = req_data.chat_input
             /\ chat_history = req_data.chat_history
             /\ user_name = req_data.user_name
             /\ db = world[1]
             /\ storage = world[2]
    /\ is_relevant = FALSE
    /\ general_response = ""
    /\ classifier_reply = "none"
    /\ is_list_request = FALSE
    /\ sql_query = PyNone
    /\ list_data = NoListData
    /\ query_result = NoResult
    /\ csv_url = PyNone
    /\ response = NoResponse
    /\ calls = <<>>
    /\ db_log = <<>>
    /\ local_files = {}
    /\ blobs = <<>>
    /\ failed = {}
    /\ db_connections = 0
    /\ exports = <<>>
    /\ clock = 1
    /\ answer_prompt = NoPrompt

(***************************************************************************)
(* The endpoint's exits.                                                   *)
(***************************************************************************)

\* str(HTTPException), which depends on the installed Starlette (the
\* repository pins no version): "<status_code>: <detail>" where the class
\* defines __str__, the empty text of Exception.__str__ where it does not.
StrHTTPException(status_code, detail) ==
    { ToString(status_code) \o ": " \o detail, "" }

\* raise HTTPException(status_code, detail) inside the endpoint's try block:
\* HTTPException is an Exception, so the handler of main.py:149 catches it
\* and raises HTTPException(500) in its place; the responses it can give.
RaiseInTry(status_code, detail) ==
    { [status |-> 500, chat_output |-> "", csv_url |-> PyNone,
       detail |-> "Error processing request: " \o text] :
        text \in StrHTTPException(status_code, detail) }

\* return {"chat_output": ..., "csv_url": ...}
Return(chat_output, url) ==
    [status |-> 200, chat_output |-> chat_output, csv_url |-> url, detail |-> ""]

\* main.py:63-88: read the body, reject a missing question, start the pipeline.
ReceiveRequest ==
    /\ pc = "received"
    /\ IF ~Truthy(user_input)
       THEN /\ response' \in RaiseInTry(400, "Please provide a valid question in the request body")
            /\ pc' = "responded"
       ELSE /\ pc' = "check_relevance"
            /\ UNCHANGED response
    /\ UNCHANGED <<list_data, user_input, chat_history, user_name, db, storage, is_relevant,
                   classifier_reply, general_response, is_list_request, sql_query, query_result,
                   csv_url, calls, db_log, local_files, blobs,
                   failed, db_connections, exports, clock, answer_prompt>>

(***************************************************************************)
(* Query plugin: the classifier.                                           *)
(***************************************************************************)

\* What one chat.completions.create call of the classifier can bring back:
\* an exception (transport failure, or a reply without text), text that is
\* not JSON, JSON that is not an object, or a JSON object holding any subset
\* of the keys the orchestrator reads (the greeting text is filled in for
\* a question the model finds not relevant, as its prompt asks).
ClassifierObjects ==
    { [k \in D |-> full[k]] :
        D \in SUBSET {"is_relevant", "response", "is_list_request"},
        full \in { [is_relevant |-> r,
                     response |-> IF r THEN "" ELSE "Hello! How can I help you today?",
                     is_list_request |-> l] : r \in BOOLEAN, l \in BOOLEAN } }

ClassifierReplies ==
    { [kind |-> "error"], [kind |-> "text"], [kind |-> "nonobject"] }
    \cup { [kind |-> "object", obj |-> o] : o \in ClassifierObjects }

\* QueryPlugin._extract_last_interaction: the latest entry of the history
\* whose stripped question and stripped answer are both non-empty.
\* The loop runs from the newest entry back and stops at the first entry
\* that is answered; an entry whose question or answer is null makes
\* .strip() raise, and the except block (query_plugin.py:74-76) returns None.
ExtractLastInteraction(history) ==
    LET raises == { i \in 1..Len(history) :
                      \/ Get(history[i], "question", "") = PyNone
                      \/ Get(history[i], "answer", "") = PyNone }
        answered == { i \in 1..Len(history) \ raises :
                        /\ Strip(Get(history[i], "question", "")) # ""
                        /\ Strip(Get(history[i], "answer", "")) # "" }
        stops == raises \cup answered
    IN  IF stops = {}
        THEN [found |-> FALSE]
        ELSE LET last == CHOOSE i \in stops : \A j \in stops : j <= i
             IN  IF last \in raises
                 THEN [found |-> FALSE]
                 ELSE [found |-> TRUE,
                       question |-> Strip(Get(history[last], "question", "")),
                       answer |-> Strip(Get(history[last], "answer", ""))]

\* query_plugin.py:145-146
CustomGreeting(name, last_question) ==
    "Hi" \o (IF Truthy(name) /\ Strip(name) # "" THEN ", " \o name ELSE "")
         \o "! I'm your Financial Reconciliation Agent. In our previous conversation, you asked about "
         \o last_question \o "\n"
         \o "                                      How can I help you with your financial data analysis today?"

\* Mutant of RelevanceFallback: the classifier fails closed.
RelevanceFallback_FailClosed ==
    [is_relevant |-> FALSE, response |-> "", is_list_request |-> FALSE]

\* query_plugin.py:154-158: the result returned when anything raises
RelevanceFallback == [is_relevant |-> TRUE, response |-> "", is_list_request |-> FALSE]

\* QueryPlugin.check_relevance, for the reply its model call brings back.
CheckRelevanceResult(input, history, name, reply) ==
    IF reply.kind # "object" THEN RelevanceFallback
    ELSE IF "is_relevant" \notin DOMAIN reply.obj THEN RelevanceFallback
    ELSE LET last == ExtractLastInteraction(history)
             result == reply.obj
         IN  IF ~result["is_relevant"] /\ last.found
             THEN [k \in DOMAIN result \cup {"response"} |->
                     IF k = "response" THEN CustomGreeting(name, last.question)
                     ELSE result[k]]
             ELSE result

\* The kind of reply the classifier's model call brought back.
ReplyClass(reply) ==
    IF reply.kind = "error" THEN "failed"
    ELSE IF reply.kind \in {"text", "nonobject"} THEN "unparseable"
    ELSE IF "is_relevant" \notin DOMAIN reply.obj THEN "no_is_relevant"
    ELSE "classified"

\* Mutant of Branch: the early exit is missing.
Branch_NoEarlyExit(relevant, list) ==
    IF list THEN "process_list_query" ELSE "generate_sql"

\* Mutant of Branch: the list flag is looked at before the relevance flag.
Branch_ListFirst(relevant, list) ==
    IF list THEN "process_list_query"
    ELSE IF ~relevant THEN "early_exit"
    ELSE "generate_sql"

\* main.py:96-109: the branch chosen from the classification.
Branch(relevant, list) ==
    IF ~relevant THEN "early_exit"
    ELSE IF list THEN "process_list_query"
    ELSE "generate_sql"

\* main.py:85-100: run the classifier, read its three fields, choose the branch.
CheckRelevance ==
    /\ pc = "check_relevance"
    /\ \E reply \in ClassifierReplies :
         LET relevance_data == CheckRelevanceResult(user_input, chat_history, user_name, reply)
             relevant == Get(relevance_data, "is_relevant", FALSE)
             general == Get(relevance_data, "response", "")
             list == Get(relevance_data, "is_list_request", FALSE)
         IN  /\ is_relevant' = relevant
             /\ general_response' = general
             /\ is_list_request' = list
             /\ classifier_reply' = ReplyClass(reply)
             /\ failed' = IF ReplyClass(reply) = "classified" THEN failed
                          ELSE failed \cup {"classifier"}
             /\ calls' = calls \o <<"check_relevance", "llm_classify">>
             /\ IF Branch(relevant, list) = "early_exit"
                THEN /\ response' = Return(general, PyNone)
                     /\ pc' = "responded"
                ELSE /\ pc' = Branch(relevant, list)
                     /\ UNCHANGED response
    /\ UNCHANGED <<list_data, user_input, chat_history, user_name, db, storage, sql_query,
                   query_result, csv_url, db_log, local_files, blobs,
                   db_connections, exports, clock, answer_prompt>>

(***************************************************************************)
(* Query plugin: the two SQL synthesis entry points.                       *)
(***************************************************************************)

\* What a text-producing chat.completions.create call can bring back: an
\* exception with its message, or the reply's text.
LlmFailures == { [kind |-> "error", message |-> "Connection error."] }

SqlReplies ==
    LlmFailures \cup
    { [kind |-> "text", content |-> c] :
        c \in { Fence \o "sql\nSELECT COUNT(PSPREFERENCE) FROM AdyenPaymentTransaction\n" \o Fence,
                "SELECT TOP 1000 PSPREFERENCE, PAYMENTAMOUNT FROM AdyenPaymentTransaction ",
                "DELETE FROM BankPaymentTransaction WHERE STORENUMBER = 7",
                "SELECT RISKSCORE FROM AdyenPaymentTransaction WHERE TIMEZONE = 'sql'" } }

RephraseReplies ==
    LlmFailures \cup
    { [kind |-> "text", content |-> "Provide summary of matched transactions"] }

\* query_plugin.py:366 and :495
FallbackSql == "SELECT TOP 10 * FROM AdyenPaymentTransaction; -- Error generating specific query"

\* query_plugin.py:357-359 and :474-476: strip the reply, drop the fences.
CleanSqlReply(content) ==
    Strip(Replace(Replace(Strip(content), Fence \o "sql", ""), Fence, ""))

\* Mutant of GenerateSqlResult: a failed translation call yields no statement.
GenerateSqlResult_NoFallback(rephrase_reply, sql_reply) ==
    IF rephrase_reply.kind = "error" THEN FallbackSql
    ELSE IF sql_reply.kind = "error" THEN ""
    ELSE CleanSqlReply(sql_reply.content)

\* QueryPlugin.generate_sql: rephrase, then translate; any failure gives
\* the fixed statement.
GenerateSqlResult(rephrase_reply, sql_reply) ==
    IF rephrase_reply.kind = "error" \/ sql_reply.kind = "error"
    THEN FallbackSql
    ELSE CleanSqlReply(sql_reply.content)

\* Mutant of GenerateSqlCalls: a failed rephrase call is tried again.
GenerateSqlCalls_Retry(rephrase_reply) ==
    IF rephrase_reply.kind = "error"
    THEN <<"generate_sql", "llm_rephrase", "llm_rephrase">>
    ELSE <<"generate_sql", "llm_rephrase", "llm_sql">>

\* The model calls generate_sql makes: the second only after the first returned.
GenerateSqlCalls(rephrase_reply) ==
    IF rephrase_reply.kind = "error"
    THEN <<"generate_sql", "llm_rephrase">>
    ELSE <<"generate_sql", "llm_rephrase", "llm_sql">>

\* QueryPlugin.process_list_query: synthesize the list statement and return
\* it with a fixed text and no address; nothing is executed or exported.
ProcessListQueryResult(sql_reply) ==
    IF sql_reply.kind = "error"
    THEN [sql_query |-> FallbackSql,
          response |-> "I encountered an error while processing your request for a list of transactions. Please try again with more specific criteria.\n\nError details: "
                       \o sql_reply.message,
          csv_url |-> PyNone]
    ELSE [sql_query |-> CleanSqlReply(sql_reply.content),
          response |-> "This is a list request that requires CSV generation.",
          csv_url |-> PyNone]

\* main.py:100-108: the list branch.  The reply is parsed into list_data
\* and its text and address are returned; variables["sql_query"] is not set.
ProcessListQuery ==
    /\ pc = "process_list_query"
    /\ \E sql_reply \in SqlReplies :
         /\ list_data' = ProcessListQueryResult(sql_reply)
         /\ response' = Return(Get(list_data', "response", ""), Get(list_data', "csv_url", PyNone))
         /\ failed' = IF sql_reply.kind = "error" THEN failed \cup {"synthesizer"}
                      ELSE failed
    /\ calls' = calls \o <<"process_list_query", "llm_list_sql">>
    /\ pc' = "responded"
    /\ UNCHANGED <<sql_query, user_input, chat_history, user_name, db, storage, is_relevant,
                   classifier_reply, general_response, is_list_request, query_result, csv_url,
                   db_log, local_files, blobs,
                   db_connections, exports, clock, answer_prompt>>

\* main.py:111-118: the query branch, statement synthesis.
GenerateSql ==
    /\ pc = "generate_sql"
    /\ \E rephrase_reply \in RephraseReplies, sql_reply \in SqlReplies :
         /\ sql_query' = GenerateSqlResult(rephrase_reply, sql_reply)
         /\ calls' = calls \o GenerateSqlCalls(rephrase_reply)
         /\ failed' = IF rephrase_reply.kind = "error" \/ sql_reply.kind = "error"
                      THEN failed \cup {"synthesizer"}
                      ELSE failed
    /\ pc' = "execute_query"
    /\ UNCHANGED <<list_data, user_input, chat_history, user_name, db, storage, is_relevant,
                   classifier_reply, general_response, is_list_request, query_result, csv_url,
                   response, db_log, local_files, blobs,
                   db_connections, exports, clock, answer_prompt>>

(***************************************************************************)
(* Database plugin.                                                        *)
(***************************************************************************)

\* database_plugin.py:71
CleanedQuery(sql) ==
    Strip(Replace(Replace(Replace(sql, Fence, ""), "sql", ""), Backtick, ""))

\* The value the driver hands over for row i, column position j, with its
\* Python type: an int, a set of ints below 8 (which Python iterates in
\* increasing order) or a complex number with integral parts.
CellValue(type, i, j) ==
    IF type = "set" THEN [type |-> "set", value |-> {i, j}]
    ELSE IF type = "complex" THEN [type |-> "complex", real |-> i - 1, imag |-> i - 2]
    ELSE [type |-> "int", value |-> 1000 * j + i]

\* cursor.fetchall(): one tuple per row, one value per column position.
FetchAll(database) ==
    [i \in 1..database.nrows |->
        [j \in 1..Len(database.column_names) |->
            CellValue(database.column_types[j], i, j)]]

\* str(value) of a set or a complex number: "{1, 2}", "set()", "(1+0j)",
\* and "-1j" for a complex number whose real part is zero.
PyStr(cell) ==
    IF cell.type = "set"
    THEN IF cell.value = {} THEN "set()" ELSE ToString(cell.value)
    ELSE IF cell.real = 0 THEN ToString(cell.imag) \o "j"
    ELSE "(" \o ToString(cell.real) \o (IF cell.imag >= 0 THEN "+" ELSE "")
             \o ToString(cell.imag) \o "j)"

\* database_plugin.py:105-111: the mapping built for one row; a set or a
\* complex number is replaced by its text, and a later column of the same
\* name overwrites an earlier one.
JsonRow(column_names, row) ==
    [c \in {column_names[j] : j \in 1..Len(column_names)} |->
        LET last == CHOOSE j \in 1..Len(column_names) :
                      /\ column_names[j] = c
                      /\ \A k \in 1..Len(column_names) : column_names[k] = c => k <= j
            value == row[last]
        IN  IF value.type \in {"set", "complex"} THEN PyStr(value) ELSE value.value]

\* The ways cursor creation, cursor.execute, the read of cursor.description
\* and cursor.fetchall can raise once pymssql.connect has returned.
FailuresAfterConnect == {"cursor_error", "execute_error", "description_error", "fetch_error"}

\* Connections left open by one execute_query call: cursor.close() and
\* conn.close() (database_plugin.py:99-100) are reached only when nothing
\* raised before them; the except block closes nothing.
ConnectionsLeftOpen(database) ==
    IF database.mode \in FailuresAfterConnect THEN 1 ELSE 0

\* The statements execute_query sends to cursor.execute.
StatementsSent(sql, database) ==
    IF database.mode \in {"connect_error", "cursor_error"} THEN <<>>
    ELSE <<CleanedQuery(sql)>>

\* Mutant of ExecuteQueryResult: row_count counts the columns.
ExecuteQueryResult_CountsColumns(sql, database) ==
    IF database.mode \in {"connect_error"} \cup FailuresAfterConnect
    THEN [success |-> FALSE, error |-> database.error]
    ELSE LET rows == FetchAll(database)
         IN  [success |-> TRUE, column_names |-> database.column_names,
              rows |-> [i \in 1..Len(rows) |-> JsonRow(database.column_names, rows[i])],
              row_count |-> Len(database.column_names)]

\* DatabasePlugin.execute_query: the JSON it returns.
ExecuteQueryResult(sql, database) ==
    IF database.mode \in {"connect_error"} \cup FailuresAfterConnect
    THEN [success |-> FALSE, error |-> database.error]
    ELSE LET rows == FetchAll(database)
         IN  [success |-> TRUE,
              column_names |-> database.column_names,
              rows |-> [i \in 1..Len(rows) |-> JsonRow(database.column_names, rows[i])],
              row_count |-> Len(rows)]

\* main.py:117-125
ExecuteQuery ==
    /\ pc = "execute_query"
    /\ query_result' = ExecuteQueryResult(sql_query, db)
    /\ db_log' = db_log \o StatementsSent(sql_query, db)
    /\ db_connections' = db_connections + ConnectionsLeftOpen(db)
    /\ failed' = IF db.mode = "ok" THEN failed ELSE failed \cup {"gateway"}
    /\ calls' = calls \o <<"execute_query", "db_connect">>
    /\ pc' = "should_generate_csv"
    /\ UNCHANGED <<list_data, user_input, chat_history, user_name, db, storage, is_relevant,
                   classifier_reply, general_response, is_list_request, sql_query, csv_url,
                   response, local_files, blobs,
                   exports, clock, answer_prompt>>

(***************************************************************************)
(* Query plugin: the export decision.                                      *)
(***************************************************************************)

\* query_plugin.py:525
ListIndicators == {"list", "all transactions", "download", "csv", "excel", "export"}

\* query_plugin.py:529
CsvRowThreshold == 20

\* Mutant of ShouldGenerateCsvResult: the success check is missing.
ShouldGenerateCsvResult_NoSuccessCheck(input, result) ==
    LET row_count == Get(result, "row_count", 0)
        mentioned == \E indicator \in ListIndicators : Contains(Lower(input), indicator)
    IN  IF mentioned \/ row_count > CsvRowThreshold THEN "true" ELSE "false"

\* Mutant of ShouldGenerateCsvResult: the row threshold is off by one.
ShouldGenerateCsvResult_OffByOne(input, result) ==
    IF ~Get(result, "success", FALSE) THEN "false"
    ELSE LET row_count == Get(result, "row_count", 0)
             mentioned == \E indicator \in ListIndicators : Contains(Lower(input), indicator)
         IN  IF mentioned \/ row_count >= CsvRowThreshold THEN "true" ELSE "false"

\* QueryPlugin.should_generate_csv
ShouldGenerateCsvResult(input, result) ==
    IF ~Get(result, "success", FALSE) THEN "false"
    ELSE LET row_count == Get(result, "row_count", 0)
             mentioned == \E indicator \in ListIndicators : Contains(Lower(input), indicator)
         IN  IF mentioned \/ row_count > CsvRowThreshold THEN "true" ELSE "false"

\* main.py:126-132
ShouldGenerateCsv ==
    /\ pc = "should_generate_csv"
    /\ calls' = Append(calls, "should_generate_csv")
    /\ csv_url' = PyNone
    /\ pc' = IF Lower(ShouldGenerateCsvResult(user_input, query_result)) = "true"
             THEN "generate_csv"
             ELSE "format_response"
    /\ UNCHANGED <<list_data, user_input, chat_history, user_name, db, storage, is_relevant,
                   classifier_reply, general_response, is_list_request, sql_query, query_result,
                   response, db_log, local_files, blobs,
                   failed, db_connections, exports, clock, answer_prompt>>

\* database_plugin.py:150
ResultSizeLimit == 10000

\* Mutant of CheckResultSizeResult: the limit itself is flagged.
CheckResultSizeResult_OffByOne(result) ==
    IF Get(result, "row_count", 0) >= ResultSizeLimit
    THEN [is_too_large |-> TRUE,
          message |-> "Too many records found for the prompt (exceeds 10000 records). Please refine your query."]
    ELSE [is_too_large |-> FALSE, message |-> "Result size is acceptable."]

\* DatabasePlugin.check_result_size: the JSON it returns for a parsed result.
CheckResultSizeResult(result) ==
    IF Get(result, "row_count", 0) > ResultSizeLimit
    THEN [is_too_large |-> TRUE,
          message |-> "Too many records found for the prompt (exceeds 10000 records). Please refine your query."]
    ELSE [is_too_large |-> FALSE, message |-> "Result size is acceptable."]

(***************************************************************************)
(* Storage plugin.                                                         *)
(***************************************************************************)

\* storage_plugin.py:54
OutputFile(timestamp) == "/tmp/query_results_" \o timestamp \o ".csv"

\* storage_plugin.py:126-127: os.path.basename of the /tmp path, prefixed.
BlobName(timestamp, file_timestamp) ==
    timestamp \o "_" \o "query_results_" \o file_timestamp \o ".csv"

\* storage_plugin.py:137
BlobUrl(blob_name) == AccountUrl \o "/" \o ContainerName \o "/" \o blob_name

\* StoragePlugin._upload_to_blob_storage: the address, or None.
UploadResult(mode, blob_name) ==
    IF mode \in {"no_config", "upload_error"} THEN PyNone ELSE BlobUrl(blob_name)

\* StoragePlugin._save_to_csv: write the file, then upload it; None when
\* the write raises.
SaveToCsvResult(mode, blob_name) ==
    IF mode \in {"open_error", "write_error"} THEN PyNone
    ELSE UploadResult(mode, blob_name)

\* True when generate_csv returns before touching the file system.
ExportIsNoOp(result) ==
    \/ ~Get(result, "success", FALSE)
    \/ Len(Get(result, "rows", <<>>)) = 0

\* StoragePlugin.generate_csv: the text it returns.  A missing address is
\* returned as the text "null" (storage_plugin.py:39, :50, :67, :71).
GenerateCsvResult(result, mode, file_timestamp, blob_timestamp) ==
    IF ExportIsNoOp(result) THEN "null"
    ELSE PyOr(SaveToCsvResult(mode, BlobName(blob_timestamp, file_timestamp)), "null")

\* Mutant of GenerateCsvFiles: the file is removed only after a completed upload.
GenerateCsvFiles_KeepOnFailure(files, result, mode, file_timestamp) ==
    IF ExportIsNoOp(result) THEN files
    ELSE IF mode \in {"remove_error", "write_error", "no_config", "upload_error"}
         THEN files \cup {OutputFile(file_timestamp)}
         ELSE files \ {OutputFile(file_timestamp)}

\* storage_plugin.py:60: the file exists after _save_to_csv when open()
\* created it or when it was there before.
FileExistsAfterSave(files, mode, file_timestamp) ==
    mode # "open_error" \/ OutputFile(file_timestamp) \in files

\* The files under /tmp after generate_csv: the file, when it exists after
\* _save_to_csv, is removed unless os.remove raises.
GenerateCsvFiles(files, result, mode, file_timestamp) ==
    IF ExportIsNoOp(result) \/ ~FileExistsAfterSave(files, mode, file_timestamp) THEN files
    ELSE IF mode = "remove_error" THEN files \cup {OutputFile(file_timestamp)}
    ELSE files \ {OutputFile(file_timestamp)}

\* storage_plugin.py:41-47 and :89-90: the header row and one row per
\* record, each value looked up by column name.
CsvContent(result) ==
    LET column_names == Get(result, "column_names", <<>>)
        rows == Get(result, "rows", <<>>)
    IN  [header |-> column_names,
         rows |-> [i \in 1..Len(rows) |->
                     [j \in 1..Len(column_names) |-> Get(rows[i], column_names[j], PyNone)]]]

\* True when the storage behaviour lets the upload complete.
UploadCompletes(mode) ==
    mode \notin {"open_error", "write_error", "no_config", "upload_error"}

\* upload_blob(data, overwrite=True): the blob of that name now holds the
\* content, whatever it held before.
PutBlob(store, name, content) ==
    [n \in DOMAIN store \cup {name} |-> IF n = name THEN content ELSE store[n]]

\* The container after generate_csv.
GenerateCsvBlobs(store, result, mode, file_timestamp, blob_timestamp) ==
    IF ExportIsNoOp(result) \/ ~UploadCompletes(mode)
    THEN store
    ELSE PutBlob(store, BlobName(blob_timestamp, file_timestamp), CsvContent(result))

\* The file and store operations generate_csv attempts: the write, the
\* upload once the write succeeded and the configuration is complete, and
\* os.remove when the file exists after _save_to_csv returned.
GenerateCsvCalls(files, result, mode, file_timestamp) ==
    IF ExportIsNoOp(result) THEN <<"generate_csv">>
    ELSE <<"generate_csv", "file_write">>
         \o (IF mode \in {"open_error", "write_error", "no_config"}
             THEN <<>> ELSE <<"blob_upload">>)
         \o (IF FileExistsAfterSave(files, mode, file_timestamp)
             THEN <<"file_remove">> ELSE <<>>)

\* main.py:133-138: csv_url = str(csv_result)
GenerateCsv ==
    /\ pc = "generate_csv"
    /\ \E i \in 1..Len(Timestamps), j \in 1..Len(Timestamps) :
         /\ i <= j
         /\ csv_url' = GenerateCsvResult(query_result, storage, Timestamps[i], Timestamps[j])
         /\ local_files' = GenerateCsvFiles(local_files, query_result, storage, Timestamps[i])
         /\ blobs' = GenerateCsvBlobs(blobs, query_result, storage, Timestamps[i], Timestamps[j])
         /\ calls' = calls \o GenerateCsvCalls(local_files, query_result, storage, Timestamps[i])
    /\ failed' = IF ExportIsNoOp(query_result) \/ storage = "ok" THEN failed
                 ELSE failed \cup {IF storage = "remove_error" THEN "cleanup" ELSE "export"}
    /\ pc' = "format_response"
    /\ UNCHANGED <<list_data, user_input, chat_history, user_name, db, storage, is_relevant,
                   classifier_reply, general_response, is_list_request, sql_query, query_result,
                   response, db_log,
                   db_connections, exports, clock, answer_prompt>>

(***************************************************************************)
(* Response plugin.                                                        *)
(***************************************************************************)

\* response_plugin.py:89
TooLargeLimit == 10000

DownloadMarker == "Download URL:"

AnswerReplies ==
    LlmFailures \cup
    { [kind |-> "text", content |-> c] :
        c \in { " You have matching transactions. ",
                "See the file. Download URL: https://elsewhere.example/old.csv" } }

\* True when format_response returns without calling the model.
ComposerShortCircuits(result) ==
    \/ ~Get(result, "success", FALSE)
    \/ Len(Get(result, "rows", <<>>)) = 0
    \/ Get(result, "row_count", 0) > TooLargeLimit

\* response_plugin.py:104
SampleRows == 50

\* Mutant of AnswerPrompt: the total is the size of the sample.
AnswerPrompt_SampleCount(input, result, sql, url) ==
    LET rows == Get(result, "rows", <<>>)
        sample == SubSeq(rows, 1, IF Len(rows) < SampleRows THEN Len(rows) ELSE SampleRows)
    IN  [question |-> input, sql_query |-> sql,
         rows |-> sample,
         column_names |-> Get(result, "column_names", <<>>),
         row_count |-> Len(sample),
         csv_url |-> url]

\* response_plugin.py:93-108: the parts of the prompt that come from the
\* request; rows[:50] and the result's own row_count.
AnswerPrompt(input, result, sql, url) ==
    LET rows == Get(result, "rows", <<>>)
    IN  [question |-> input, sql_query |-> sql,
         rows |-> SubSeq(rows, 1, IF Len(rows) < SampleRows THEN Len(rows) ELSE SampleRows),
         column_names |-> Get(result, "column_names", <<>>),
         row_count |-> Get(result, "row_count", 0),
         csv_url |-> url]

\* response_plugin.py:130: how the text returned on a failed model call begins.
ApologyPrefix == "I apologize, but I encountered an error processing your request."

\* Mutant of FormatResponseResult: the size check comes before the empty check.
FormatResponseResult_SizeFirst(result, url, reply) ==
    IF ~Get(result, "success", FALSE)
    THEN "I encountered an error executing your query: " \o Get(result, "error", "Unknown error")
    ELSE IF Get(result, "row_count", 0) > TooLargeLimit
    THEN "Too many records found for the prompt (exceeds 10000). Please refine your query."
    ELSE IF Len(Get(result, "rows", <<>>)) = 0
    THEN "No data found for the prompt."
    ELSE IF reply.kind = "error"
    THEN "I apologize, but I encountered an error processing your request. Please try again or rephrase your question. Error details: "
         \o reply.message
    ELSE LET formatted_response == Strip(reply.content)
         IN  IF Truthy(url) /\ ~Contains(formatted_response, DownloadMarker)
             THEN formatted_response \o "\n\nDownload URL: " \o url
             ELSE formatted_response

\* ResponsePlugin.format_response, for the reply its model call brings back
\* (the reply is not asked for when the result short-circuits).
FormatResponseResult(result, url, reply) ==
    IF ~Get(result, "success", FALSE)
    THEN "I encountered an error executing your query: " \o Get(result, "error", "Unknown error")
    ELSE IF Len(Get(result, "rows", <<>>)) = 0
    THEN "No data found for the prompt."
    ELSE IF Get(result, "row_count", 0) > TooLargeLimit
    THEN "Too many records found for the prompt (exceeds 10000). Please refine your query."
    ELSE IF reply.kind = "error"
    THEN "I apologize, but I encountered an error processing your request. Please try again or rephrase your question. Error details: "
         \o reply.message
    ELSE LET formatted_response == Strip(reply.content)
         IN  IF Truthy(url) /\ ~Contains(formatted_response, DownloadMarker)
             THEN formatted_response \o "\n\nDownload URL: " \o url
             ELSE formatted_response

\* main.py:140-147
FormatResponse ==
    /\ pc = "format_response"
    /\ \E reply \in AnswerReplies :
         /\ response' = Return(FormatResponseResult(query_result, PyOr(csv_url, ""), reply), csv_url)
         /\ failed' = IF ~ComposerShortCircuits(query_result) /\ reply.kind = "error"
                      THEN failed \cup {"composer"}
                      ELSE failed
    /\ calls' = calls \o (IF ComposerShortCircuits(query_result)
                          THEN <<"format_response">>
                          ELSE <<"format_response", "llm_answer">>)
    /\ answer_prompt' = IF ComposerShortCircuits(query_result) THEN answer_prompt
                        ELSE AnswerPrompt(user_input, query_result, sql_query, PyOr(csv_url, ""))
    /\ pc' = "responded"
    /\ UNCHANGED <<list_data, user_input, chat_history, user_name, db, storage, is_relevant,
                   classifier_reply, general_response, is_list_request, sql_query, query_result,
                   csv_url, db_log, local_files, blobs,
                   db_connections, exports, clock>>

Next ==
    \/ ReceiveRequest
    \/ CheckRelevance
    \/ ProcessListQuery
    \/ GenerateSql
    \/ ExecuteQuery
    \/ ShouldGenerateCsv
    \/ GenerateCsv
    \/ FormatResponse

Spec == Init /\ [][Next]_vars

\* The handler is one coroutine: after each awaited call returns or raises,
\* its next statement runs, so a step that is possible is eventually taken.
\* The requests and worlds followed to the end under fairness: every
\* question, against a failing database, an empty one, one below and one
\* above the export threshold, with a working and a failing upload.
FairScenarios ==
    { Body(q, <<>>, "") : q \in Questions }
    \X ({ d \in FailingDatabases : d.mode = "connect_error" }
         \cup { Table(AdyenColumns, 0), Table(AdyenColumns, 5), Table(AdyenColumns, 21) })
    \X {"ok", "upload_error"}

FairInit ==
    /\ pc = "received"
    /\ \E scenario \in FairScenarios :
         /\ user_input = scenario[1].chat_input
         /\ chat_history = scenario[1].chat_history
         /\ user_name = scenario[1].user_name
         /\ db = scenario[2]
         /\ storage = scenario[3]
    /\ is_relevant = FALSE
    /\ general_response = ""
    /\ classifier_reply = "none"
    /\ is_list_request = FALSE
    /\ sql_query = PyNone
    /\ list_data = NoListData
    /\ query_result = NoResult
    /\ csv_url = PyNone
    /\ response = NoResponse
    /\ calls = <<>>
    /\ db_log = <<>>
    /\ local_files = {}
    /\ blobs = <<>>
    /\ failed = {}
    /\ db_connections = 0
    /\ exports = <<>>
    /\ clock = 1
    /\ answer_prompt = NoPrompt

FairSpec == FairInit /\ [][Next]_vars /\ WF_vars(Next)

(***************************************************************************)
(* The Export Writer on its own: several generate_csv invocations against  *)
(* one /tmp directory and one container, as successive or concurrent       *)
(* requests of the one server process make them.  generate_csv is a plain  *)
(* synchronous function, so one invocation runs from its first line to its *)
(* return before the event loop starts another; the clock may advance      *)
(* between invocations and between the two strftime calls of one.          *)
(***************************************************************************)

\* Number of generate_csv invocations followed.
MaxExports == 2

\* The results handed to generate_csv.
ExportResults ==
    { ExecuteQueryResult(FallbackSql, database) :
        database \in { Table(AdyenColumns, 0), Table(AdyenColumns, 2), Table(AdyenColumns, 3),
                       Table(JoinColumns, 2),
                       [mode |-> "connect_error", error |-> "Adaptive Server connection failed",
                        column_names |-> <<>>, nrows |-> 0] } }

ExportInit ==
    /\ pc = "exporting"
    /\ storage = "ok"
    /\ user_input = PyNone
    /\ chat_history = <<>>
    /\ user_name = ""
    /\ db = Table(AdyenColumns, 0)
    /\ is_relevant = FALSE
    /\ general_response = ""
    /\ classifier_reply = "none"
    /\ is_list_request = FALSE
    /\ sql_query = PyNone
    /\ list_data = NoListData
    /\ query_result = NoResult
    /\ csv_url = PyNone
    /\ response = NoResponse
    /\ calls = <<>>
    /\ db_log = <<>>
    /\ local_files = {}
    /\ blobs = <<>>
    /\ failed = {}
    /\ db_connections = 0
    /\ exports = <<>>
    /\ clock = 1
    /\ answer_prompt = NoPrompt

\* The clock reaches the next second.
Tick ==
    /\ pc = "exporting"
    /\ clock < Len(Timestamps)
    /\ clock' = clock + 1
    /\ UNCHANGED <<list_data, pc, user_input, chat_history, user_name, db, storage, is_relevant,
                   classifier_reply, general_response, is_list_request, sql_query, query_result,
                   csv_url, response, calls, db_log, local_files, blobs, failed,
                   db_connections, exports, answer_prompt>>

\* One generate_csv invocation: the file name is stamped with the current
\* second, the blob name with that second or a later one; the file system
\* and the object store behave in one of their ways for this invocation.
ExportWriter ==
    /\ pc = "exporting"
    /\ Len(exports) < MaxExports
    /\ \E result \in ExportResults, upload_clock \in clock..Len(Timestamps),
          mode \in StorageModes :
         /\ storage' = mode
         /\ exports' = Append(exports,
                [result |-> result,
                 output_file |-> OutputFile(Timestamps[clock]),
                 blob_name |-> BlobName(Timestamps[upload_clock], Timestamps[clock]),
                 address |-> GenerateCsvResult(result, mode, Timestamps[clock],
                                               Timestamps[upload_clock])])
         /\ local_files' = GenerateCsvFiles(local_files, result, mode, Timestamps[clock])
         /\ blobs' = GenerateCsvBlobs(blobs, result, mode, Timestamps[clock],
                                      Timestamps[upload_clock])
         /\ calls' = calls \o GenerateCsvCalls(local_files, result, mode, Timestamps[clock])
         /\ clock' = upload_clock
    /\ UNCHANGED <<list_data, pc, user_input, chat_history, user_name, db, is_relevant,
                   classifier_reply, general_response, is_list_request, sql_query, query_result,
                   csv_url, response, db_log, failed, db_connections, answer_prompt>>

ExportNext ==
    \/ Tick
    \/ ExportWriter

ExportSpec == ExportInit /\ [][ExportNext]_vars

(***************************************************************************)
(* The Answer Composer on its own: format_response applied to any parsed   *)
(* result, well-formed or not.                                             *)
(***************************************************************************)

\* Parsed results: every choice of which keys are present, with a failure
\* or success flag, no rows or one row, and a row_count that need not
\* agree with the rows.
ComposerResults ==
    { [k \in D \cup {"column_names"} |-> full[k]] :
        D \in SUBSET {"success", "error", "rows", "row_count"},
        full \in { [success |-> ok, error |-> "Login failed", column_names |-> AdyenColumns,
                    rows |-> rows, row_count |-> n] :
                     ok \in BOOLEAN,
                     rows \in { <<>>, <<JsonRow(AdyenColumns, FetchAll(Table(AdyenColumns, 1))[1])>> },
                     n \in {0, 1, 10000, 10001} } }

ComposerInit ==
    /\ pc = "format_response"
    /\ query_result \in ComposerResults
    /\ csv_url \in {PyNone, "null"}
    /\ user_input = "how many matched yesterday"
    /\ sql_query = FallbackSql
    /\ list_data = NoListData
    /\ chat_history = <<>>
    /\ user_name = ""
    /\ db = Table(AdyenColumns, 0)
    /\ storage = "ok"
    /\ is_relevant = TRUE
    /\ general_response = ""
    /\ classifier_reply = "classified"
    /\ is_list_request = FALSE
    /\ response = NoResponse
    /\ calls = <<>>
    /\ db_log = <<>>
    /\ local_files = {}
    /\ blobs = <<>>
    /\ failed = {}
    /\ db_connections = 0
    /\ exports = <<>>
    /\ clock = 1
    /\ answer_prompt = NoPrompt

ComposerSpec == ComposerInit /\ [][FormatResponse]_vars

(***************************************************************************)
(* Properties.                                                             *)
(***************************************************************************)

Invoked(name) == \E i \in 1..Len(calls) : calls[i] = name

Responded == pc = "responded"

\* The request took the list branch / the query branch.
OnListBranch == Invoked("check_relevance") /\ is_relevant /\ is_list_request
OnQueryBranch == Invoked("check_relevance") /\ is_relevant /\ ~is_list_request

\* C1: a relevant list request whose database holds a non-empty result and
\* whose upload would succeed is answered with a non-null csv_url and a
\* chat_output containing "Download URL:".
C1_ListRequestDeliversExport ==
    (Responded /\ OnListBranch /\ db.mode = "ok" /\ db.nrows > 0 /\ storage = "ok")
    => /\ response.status = 200
       /\ response.csv_url # PyNone
       /\ Contains(response.chat_output, "Download URL:")

\* C2: on the list branch the orchestrator has invoked, in this order and
\* before responding, list-SQL synthesis, the Database Gateway, the Export
\* Writer and the Answer Composer.
C2_ListBranchCallOrder ==
    (Responded /\ OnListBranch)
    => \E i, j, k, l \in 1..Len(calls) :
         /\ i < j /\ j < k /\ k < l
         /\ calls[i] = "process_list_query"
         /\ calls[j] = "execute_query"
         /\ calls[k] = "generate_csv"
         /\ calls[l] = "format_response"

\* C3: a request classified as not relevant is answered with a null csv_url,
\* whatever the question, the history and the is_list_request flag are.
C3_NotRelevantNoExport ==
    (Responded /\ Invoked("check_relevance") /\ ~is_relevant)
    => response.status = 200 /\ response.csv_url = PyNone

\* C3 witness: a not-relevant classification with the list flag set and a
\* chat history has been answered.
C3_Witness ==
    /\ Responded /\ Invoked("check_relevance") /\ ~is_relevant
    /\ is_list_request /\ chat_history # <<>>
    /\ response.status = 200

\* C4: a request without chat_input (missing or empty) is answered with
\* HTTP 400 and no component is called for it.
C4_MissingInputIsClientError ==
    (Responded /\ ~Truthy(user_input))
    => response.status = 400 /\ calls = <<>>

\* C5: a result with row_count > 10,000 is never passed to the Export Writer
\* and never to a language-model answer-composition call.
C5_TooLargeIsTerminal ==
    Get(query_result, "row_count", 0) > 10000
    => ~Invoked("generate_csv") /\ ~Invoked("llm_answer")

\* C6: on the query branch, when the Database Gateway fails, the response is
\* a normal one with a non-empty chat_output and a null csv_url, and the
\* Export Writer is never invoked.
C6_GatewayFailureIsAnswered ==
    (Invoked("execute_query") /\ ~Get(query_result, "success", FALSE) /\ pc # "should_generate_csv"
        => ~Invoked("generate_csv") /\ pc # "generate_csv")
    /\ (Responded /\ Invoked("execute_query") /\ ~Get(query_result, "success", FALSE)
        => /\ response.status = 200
           /\ response.chat_output # ""
           /\ response.csv_url = PyNone)

\* C6 witness: the database could not be reached, the question carries an
\* export keyword, and the request has been answered.
C6_Witness ==
    /\ Responded /\ OnQueryBranch /\ Invoked("execute_query")
    /\ db.mode = "connect_error"
    /\ user_input = "EXPORT the totals"

\* C7: when the Export Writer is invoked on the query branch and produces no
\* address, the response's csv_url is null, the Answer Composer has still
\* been invoked and the request is answered normally.
C7_NoAddressIsNullUrl ==
    (Responded /\ OnQueryBranch /\ Invoked("generate_csv") /\ DOMAIN blobs = {})
    => /\ response.status = 200
       /\ Invoked("format_response")
       /\ response.csv_url = PyNone

\* C8: a response carrying a non-null csv_url has a chat_output containing
\* "Download URL:" followed by that address, for every outcome of the
\* Answer Composer.
C8_UrlIsInChatOutput ==
    (Responded /\ response.status = 200 /\ response.csv_url # PyNone)
    => Contains(response.chat_output, "Download URL: " \o response.csv_url)

\* The question contains one of the list/export keywords of C9.
C9_HasKeyword ==
    \E k \in {"list", "all transactions", "download", "csv", "excel", "export"} :
        Contains(Lower(user_input), k)

\* C9 as stated: on the query branch the Export Writer is invoked if and
\* only if the question contains a keyword or the result's row_count > 20.
C9_ExportIffKeywordOrRows ==
    (Responded /\ Invoked("should_generate_csv"))
    => (Invoked("generate_csv")
          <=> (C9_HasKeyword \/ Get(query_result, "row_count", 0) > 20))

\* C9 amended: on the query branch the Export Writer is invoked if and only
\* if the gateway's result is successful and the question contains a keyword
\* or row_count > 20; when it is not invoked csv_url is null.
C9_ExportIffSuccessAndKeywordOrRows ==
    (Responded /\ Invoked("should_generate_csv"))
    => /\ Invoked("generate_csv")
            <=> /\ Get(query_result, "success", FALSE)
                /\ (C9_HasKeyword \/ Get(query_result, "row_count", 0) > 20)
       /\ ~Invoked("generate_csv") => response.csv_url = PyNone

\* C9 witness: no keyword and exactly 20 rows, answered without an export.
C9_Witness ==
    /\ Responded /\ Invoked("should_generate_csv")
    /\ ~C9_HasKeyword
    /\ Get(query_result, "row_count", 0) = 20
    /\ ~Invoked("generate_csv")

\* C10: when the classifier's model call fails, or its output is not a JSON
\* object, or lacks is_relevant, the classification is relevant and not a
\* list request, and the request goes down the query branch.
C10_ClassifierFailsOpen ==
    classifier_reply \in {"failed", "unparseable", "no_is_relevant"}
    => /\ is_relevant /\ ~is_list_request
       /\ pc = "generate_sql" \/ Invoked("generate_sql")
       /\ ~Invoked("process_list_query")

\* C10 witness: a greeting whose classification lacked is_relevant stands
\* at the start of the query branch.
C10_Witness ==
    /\ classifier_reply = "no_is_relevant"
    /\ user_input = "hello"
    /\ pc = "generate_sql"

\* C11: when a model call inside generate_sql fails, the statement is the
\* fixed fallback; the orchestrator sends exactly that statement to the
\* database whenever a cursor is obtained, and answers the request with the
\* text the composer builds from the statement's result.
C11_FallbackIsExecutedAndAnswered ==
    ("synthesizer" \in failed /\ Invoked("generate_sql")) =>
        /\ sql_query = FallbackSql
        /\ (Invoked("execute_query") =>
              /\ db_log = StatementsSent(FallbackSql, db)
              /\ query_result = ExecuteQueryResult(FallbackSql, db))
        /\ (Responded =>
              /\ Invoked("execute_query")
              /\ Invoked("format_response")
              /\ response.status = 200
              /\ \E reply \in AnswerReplies :
                    response.chat_output
                        = FormatResponseResult(query_result, PyOr(csv_url, ""), reply))

\* A failed synthesis whose fallback statement returned rows and was answered
\* by the model.
C11_Witness ==
    /\ Responded
    /\ "synthesizer" \in failed
    /\ Invoked("generate_sql")
    /\ db_log = <<FallbackSql>>
    /\ Get(query_result, "row_count", 0) = 5
    /\ Invoked("llm_answer")

\* The statement the synthesizer returned in this request: generate_sql's
\* on the query branch, the one in process_list_query's reply on the list
\* branch.
SynthesizedStatement ==
    IF Invoked("process_list_query") THEN list_data.sql_query ELSE sql_query

\* The statement names every column with a star.
UsesSelectStar(statement) ==
    \/ Contains(statement, "SELECT *")
    \/ Contains(statement, " * FROM")

\* C12: no statement returned by generate_sql or process_list_query, on the
\* success path or on the fallback path, uses SELECT *.
C12_NeverSelectStar ==
    (Invoked("generate_sql") \/ Invoked("process_list_query"))
        => ~UsesSelectStar(SynthesizedStatement)

DataModifyingKeywords == {"insert", "update", "delete", "drop", "alter"}

ContainsDataModifyingKeyword(statement) ==
    \E keyword \in DataModifyingKeywords : Contains(Lower(statement), keyword)

\* C13: whatever the model returns, the statement the synthesizer produces
\* and every statement the database executes contain none of insert,
\* update, delete, drop, alter.
C13_NoDataModifyingStatement ==
    /\ (Invoked("generate_sql") \/ Invoked("process_list_query"))
         => ~ContainsDataModifyingKeyword(SynthesizedStatement)
    /\ \A i \in 1..Len(db_log) : ~ContainsDataModifyingKeyword(db_log[i])

\* C14: once execute_query has returned, no connection it opened is still
\* open, on the success path and on every failure path.
C14_NoConnectionStaysOpen ==
    Invoked("execute_query") => db_connections = 0

\* C15: every successful result of execute_query has as many rows as its
\* row_count says, zero included.
C15_RowCountIsLenRows ==
    (Invoked("execute_query") /\ Get(query_result, "success", FALSE))
        => Len(query_result.rows) = query_result.row_count

\* A successful result with no rows.
C15_Witness ==
    /\ Invoked("execute_query")
    /\ Get(query_result, "success", FALSE)
    /\ query_result.row_count = 0
    /\ db.column_names = AdyenColumns

\* C16: check_result_size flags a result exactly when its row_count exceeds
\* 10,000, and a non-empty result above 10,000 rows is answered with the
\* fixed too-many-records text without a model call.
C16_TooLargeAboveTenThousand ==
    Invoked("execute_query") =>
        /\ CheckResultSizeResult(query_result).is_too_large
              <=> (Get(query_result, "row_count", 0) > 10000)
        /\ (Responded /\ Get(query_result, "row_count", 0) > 10000) =>
              /\ response.chat_output
                    = "Too many records found for the prompt (exceeds 10000). Please refine your query."
              /\ ~Invoked("llm_answer")

\* A 10,001-row result, flagged, answered with the fixed text.
C16_Witness ==
    /\ Responded
    /\ Get(query_result, "row_count", 0) = 10001
    /\ CheckResultSizeResult(query_result).is_too_large
    /\ Invoked("format_response")

\* A 10,000-row result, not flagged, answered by the model.
C16_WitnessAtLimit ==
    /\ Responded
    /\ Get(query_result, "row_count", 0) = 10000
    /\ ~CheckResultSizeResult(query_result).is_too_large
    /\ Invoked("llm_answer")

\* C17: two exports of the same result that both return an address return
\* two distinct addresses, stored under two distinct blob names.
C17_ExportsHaveDistinctAddresses ==
    \A i \in 1..Len(exports), j \in 1..Len(exports) :
        (i < j /\ exports[i].result = exports[j].result
               /\ exports[i].address # "null" /\ exports[j].address # "null")
            => /\ exports[i].address # exports[j].address
               /\ exports[i].blob_name # exports[j].blob_name

\* C18: the object at the address an export returned holds the rows of
\* that export's own result, whatever other exports have done since.
C18_ExportHoldsOwnRows ==
    \A i \in 1..Len(exports) :
        exports[i].address # "null" =>
            /\ exports[i].blob_name \in DOMAIN blobs
            /\ blobs[exports[i].blob_name] = CsvContent(exports[i].result)

\* C19: a failure inside a component stays inside it: the classifier
\* answers relevant / not a list, the synthesizer the fallback statement,
\* the gateway a structured failure result, the export writer no export
\* (a null address with nothing uploaded), the composer its apology text;
\* the request is then answered normally, and an error response is given
\* only when no component failed.
C19_FailuresBecomeDefaults ==
    /\ "classifier" \in failed =>
          (is_relevant /\ ~is_list_request /\ general_response = "")
    /\ "synthesizer" \in failed => SynthesizedStatement = FallbackSql
    /\ "gateway" \in failed => query_result = [success |-> FALSE, error |-> db.error]
    /\ "export" \in failed => (csv_url = PyNone /\ DOMAIN blobs = {})
    /\ ("composer" \in failed /\ Responded) =>
          /\ Contains(response.chat_output, ApologyPrefix)
          /\ Invoked("llm_answer")
    /\ (failed # {} /\ Responded) => response.status = 200
    /\ response.status = 500 => failed = {}

\* C20: no component and no external call is made twice within a request,
\* and an error response is the only thing a request that gets one does.
C20_NoRetry ==
    /\ \A i \in 1..Len(calls), j \in 1..Len(calls) : calls[i] = calls[j] => i = j
    /\ response.status = 500 =>
          /\ Responded
          /\ calls = <<>>
          /\ Contains(response.detail, "Error processing request: ")

\* A request whose synthesis and database call both failed and that ran
\* the classifier, the synthesizer, the gateway and the composer once each.
C20_Witness ==
    /\ Responded
    /\ {"synthesizer", "gateway"} \subseteq failed
    /\ calls = <<"check_relevance", "llm_classify", "generate_sql", "llm_rephrase",
                 "execute_query", "db_connect", "should_generate_csv", "format_response">>

\* The request is on the early exit.
OnEarlyExit == Invoked("check_relevance") /\ ~is_relevant

\* The components of the list branch / of the query branch have been called.
ListBranchCalled == Invoked("process_list_query")
QueryBranchCalled ==
    \E name \in {"generate_sql", "execute_query", "should_generate_csv",
                  "generate_csv", "format_response"} : Invoked(name)

\* State part of C21: the classifier is the first call; once it has
\* returned the request is on the one branch its result names and calls
\* nothing of the other branches.
C21_BranchFollowsClassification ==
    /\ calls # <<>> => calls[1] = "check_relevance"
    /\ (Truthy(user_input) /\ pc # "received") => (pc = "check_relevance" \/ Invoked("check_relevance"))
    /\ OnEarlyExit =>
          (Responded /\ response.status = 200 /\ ~ListBranchCalled /\ ~QueryBranchCalled)
    /\ OnListBranch =>
          /\ ~QueryBranchCalled
          /\ pc \in {"process_list_query", "responded"}
          /\ Responded => (ListBranchCalled /\ response.status = 200)
    /\ OnQueryBranch =>
          /\ ~ListBranchCalled
          /\ pc \in {"generate_sql", "execute_query", "should_generate_csv",
                      "generate_csv", "format_response", "responded"}
          /\ Responded => (Invoked("generate_sql") /\ response.status = 200)

\* C21: a request with a question is classified first, then takes exactly
\* the branch the classification names, and, every external call returning
\* or failing, reaches responded, after which nothing more happens.
C21_Lifecycle ==
    /\ []C21_BranchFollowsClassification
    /\ [][pc # "responded"]_vars
    /\ (Truthy(user_input) => <>Responded)

\* A not-relevant request with the list flag set has responded on the early
\* exit, and so has, in another run, a query-branch request.
C21_Witness ==
    /\ Responded
    /\ Truthy(user_input)
    /\ OnQueryBranch
    /\ calls[1] = "check_relevance"
    /\ Invoked("format_response")
    /\ failed = {}

\* C22: on the early exit the answer is the classifier's text and the
\* classifier is the only component that was called.
C22_EarlyExitCallsNothingElse ==
    (Responded /\ OnEarlyExit) =>
        /\ response.status = 200
        /\ response.chat_output = general_response
        /\ calls = <<"check_relevance", "llm_classify">>
        /\ sql_query = PyNone /\ list_data = NoListData
        /\ query_result = NoResult /\ db_log = <<>>
        /\ local_files = {} /\ DOMAIN blobs = {} /\ answer_prompt = NoPrompt

\* An early exit answered with the model's own general text.
C22_Witness ==
    /\ Responded /\ OnEarlyExit
    /\ classifier_reply = "classified"
    /\ chat_history = <<>>
    /\ response.chat_output = "Hello! How can I help you today?"

\* os.remove is attempted after the write and the upload attempt.
C23_RemoveComesLast ==
    \A i \in 1..Len(calls), j \in 1..Len(calls) :
        (calls[i] = "file_remove" /\ calls[j] \in {"file_write", "blob_upload"}) => j < i

\* C23 as stated: once generate_csv has returned no local file exists.
C23_LocalFileAlwaysRemoved ==
    Invoked("generate_csv") => (local_files = {} /\ C23_RemoveComesLast)

\* C23, amended: once generate_csv has returned the local file exists
\* exactly when its removal failed, and the removal is attempted only after
\* the write and the upload attempt.
C23_LocalFileRemovedUnlessRemoveFails ==
    Invoked("generate_csv") =>
        /\ local_files # {} <=> (Invoked("file_remove") /\ storage = "remove_error")
        /\ (Invoked("file_write") /\ storage # "open_error") => Invoked("file_remove")
        /\ C23_RemoveComesLast

\* The write failed part-way and the file was removed.
C23_Witness ==
    /\ Invoked("generate_csv")
    /\ storage = "write_error"
    /\ Invoked("file_remove")
    /\ local_files = {}

\* C24: for an unsuccessful or empty result generate_csv returns null,
\* writes no file and does not contact the object store.
C24_NoOpReturnsNull ==
    (Invoked("generate_csv") /\ ExportIsNoOp(query_result)) =>
        /\ GenerateCsvResult(query_result, storage, Timestamps[1], Timestamps[1]) = PyNone
        /\ ~Invoked("file_write") /\ ~Invoked("blob_upload")
        /\ local_files = {} /\ DOMAIN blobs = {}

\* C25: format_response answers a failure result with the error
\* explanation, otherwise a result without rows with the no-data text,
\* otherwise a result above 10,000 rows with the too-many-records text, and
\* calls the model in none of the three cases.
C25_ShortCircuitsInOrder ==
    Responded =>
        LET failure == ~Get(query_result, "success", FALSE)
            empty == Len(Get(query_result, "rows", <<>>)) = 0
            large == Get(query_result, "row_count", 0) > 10000
        IN  /\ failure =>
                  response.chat_output = "I encountered an error executing your query: "
                                           \o Get(query_result, "error", "Unknown error")
            /\ (~failure /\ empty) => response.chat_output = "No data found for the prompt."
            /\ (~failure /\ ~empty /\ large) =>
                  response.chat_output
                      = "Too many records found for the prompt (exceeds 10000). Please refine your query."
            /\ (failure \/ empty \/ large) => (~Invoked("llm_answer") /\ answer_prompt = NoPrompt)

\* A successful result without rows whose row_count says 10,001 was
\* answered with the no-data text.
C25_Witness ==
    /\ Responded
    /\ Get(query_result, "success", FALSE)
    /\ "rows" \in DOMAIN query_result /\ query_result.rows = <<>>
    /\ Get(query_result, "row_count", 0) = 10001
    /\ response.chat_output = "No data found for the prompt."

\* C26: when format_response calls the model, the rows in the prompt are
\* the first min(50, len(rows)) rows of the result, in order, and the total
\* in the prompt is the result's row_count.
C26_PromptHasFirstFiftyRows ==
    Invoked("llm_answer") =>
        LET rows == query_result.rows
        IN  /\ Len(answer_prompt.rows) = (IF Len(rows) < 50 THEN Len(rows) ELSE 50)
            /\ \A i \in 1..Len(answer_prompt.rows) : answer_prompt.rows[i] = rows[i]
            /\ answer_prompt.row_count = Get(query_result, "row_count", 0)

\* A 10,000-row result was sent to the model as 50 rows and the total 10,000.
C26_Witness ==
    /\ Invoked("llm_answer")
    /\ Len(query_result.rows) = 10000
    /\ Len(answer_prompt.rows) = 50
    /\ answer_prompt.row_count = 10000

\* A history value that holds text other than blanks.
C27_HasText(value) == value # PyNone /\ Strip(value) # ""

\* C27: a question the model classifies as not relevant is answered with
\* the template naming the question of the newest history entry that has a
\* non-blank question and a non-blank answer, and with the model's own text
\* when the history has no such entry.
C27_GreetingNamesLastAnsweredQuestion ==
    (Responded /\ OnEarlyExit /\ classifier_reply = "classified") =>
        LET answered == { i \in 1..Len(chat_history) :
                            /\ C27_HasText(Get(chat_history[i], "question", ""))
                            /\ C27_HasText(Get(chat_history[i], "answer", "")) }
        IN  IF answered # {}
            THEN LET last == CHOOSE i \in answered : \A j \in answered : j <= i
                 IN  response.chat_output
                         = CustomGreeting(user_name, Strip(chat_history[last].question))
            ELSE response.chat_output \in {"Hello! How can I help you today?", ""}

\* C28: the statement sent to the database is the supplied statement
\* without code fences, backticks and surrounding whitespace, and nothing
\* else is removed from it.
C28_OnlyDecorationRemoved ==
    \A i \in 1..Len(db_log) :
        db_log[i] = Strip(Replace(Replace(sql_query, Fence, ""), Backtick, ""))

\* C29: every row mapping of a successful result has one entry for each
\* position of column_names.
C29_RowHoldsEveryColumn ==
    (Invoked("execute_query") /\ Get(query_result, "success", FALSE)) =>
        \A i \in 1..Len(query_result.rows) :
            Cardinality(DOMAIN query_result.rows[i]) = Len(query_result.column_names)

====
